---- MODULE Spec2Model ----
(***************************************************************************)
(* State-machine model of target-salesforce (target_salesforce/__init__.py) *)
(*                                                                         *)
(*   SpecRepl      get_replication_key                                     *)
(*   SpecSort      sort_files, as called by main                           *)
(*   SpecDiscover  the object loop and tag removal of do_discover          *)
(*   SpecSchema    generate_schema                                         *)
(*   Spec          upload_target over one payload file                     *)
(*                                                                         *)
(* Strings the code inspects by content are modelled by what the           *)
(* inspection sees: a file name is the sequence of the words it is made    *)
(* of, so that `priority in file` is containment of one sequence in        *)
(* another, and a resource url is the sequence of its path segments.       *)
(***************************************************************************)
EXTENDS Integers, Sequences, FiniteSets, TLC

VARIABLES
    \* get_replication_key
    rk_pc, sobject_name, fields_list, replication_key,
    \* sort_files
    sort_pc, payloads_files, priority_list, sorted_files,
    \* do_discover
    disc_pc, descriptions, blacklisted_objects, disc_api_type, has_permissions,
    disc_i, sf_custom_setting_objects, object_to_tag_references, entries,
    \* generate_schema
    schema_pc, schema_fields, api_type, select_fields_by_default, blacklisted_fields,
    schema_replication_key, schema_i, unsupported_fields, mdata, properties,
    filtered_unsupported_fields,
    \* upload_target
    pc, payload, remote0, remote, idx, calls

rk_vars == <<rk_pc, sobject_name, fields_list, replication_key>>
sort_vars == <<sort_pc, payloads_files, priority_list, sorted_files>>
disc_vars == <<disc_pc, descriptions, blacklisted_objects, disc_api_type,
               has_permissions, disc_i, sf_custom_setting_objects,
               object_to_tag_references, entries>>
schema_inputs == <<schema_fields, api_type, select_fields_by_default,
                   blacklisted_fields, schema_replication_key>>
schema_vars == <<schema_pc, schema_inputs, schema_i, unsupported_fields, mdata,
                 properties, filtered_unsupported_fields>>
upload_vars == <<pc, payload, remote0, remote, idx, calls>>
vars == <<rk_vars, sort_vars, disc_vars, schema_vars, upload_vars>>

\* Python's None
None == "<None>"

\* Elements of a sequence
Range(s) == {s[i] : i \in 1..Len(s)}

\* All sequences over S of length at most n
SeqsUpTo(S, n) == UNION {[1..k -> S] : k \in 0..n}

\* Sequences without a repeated element
Distinct(s) == \A i, j \in 1..Len(s) : i # j => s[i] # s[j]

(***************************************************************************)
(* get_replication_key                                                     *)
(***************************************************************************)
FORCED_FULL_TABLE == {"BackgroundOperationResult", "LoginEvent"}

\* Object names and field names the resolver is exercised on
RkObjects == {"BackgroundOperationResult", "LoginEvent", "LoginHistory", "Account"}
RkFieldNames == {"Id", "SystemModstamp", "LastModifiedDate", "CreatedDate", "LoginTime"}

\* Mutant: the forced-full-table check is missing
get_replication_key_unforced(name, fields) ==
    IF "SystemModstamp" \in fields THEN "SystemModstamp"
    ELSE IF "LastModifiedDate" \in fields THEN "LastModifiedDate"
    ELSE IF "CreatedDate" \in fields THEN "CreatedDate"
    ELSE IF "LoginTime" \in fields /\ name = "LoginHistory" THEN "LoginTime"
    ELSE None

\* fields is the set of the names in fields_list
get_replication_key(name, fields) ==
    IF name \in FORCED_FULL_TABLE THEN None
    ELSE IF "SystemModstamp" \in fields THEN "SystemModstamp"
    ELSE IF "LastModifiedDate" \in fields THEN "LastModifiedDate"
    ELSE IF "CreatedDate" \in fields THEN "CreatedDate"
    ELSE IF "LoginTime" \in fields /\ name = "LoginHistory" THEN "LoginTime"
    ELSE None

RkIdle ==
    /\ rk_pc = "idle"
    /\ sobject_name = None
    /\ fields_list = {}
    /\ replication_key = None

RkInit ==
    /\ rk_pc = "start"
    /\ sobject_name \in RkObjects
    /\ fields_list \in SUBSET RkFieldNames
    /\ replication_key = None

ResolveReplicationKey ==
    /\ rk_pc = "start"
    /\ replication_key' = get_replication_key(sobject_name, fields_list)
    /\ rk_pc' = "done"
    /\ UNCHANGED <<sobject_name, fields_list, sort_vars, disc_vars, schema_vars, upload_vars>>

(***************************************************************************)
(* sort_files                                                              *)
(***************************************************************************)
\* File names, as the words they are made of (Account.json, AccountTeam.json, ...)
FileNames == {<<"Account">>, <<"Account", "Team">>, <<"Contact">>,
              <<"Opportunity">>, <<"Lead">>}

PRIORITY_LIST == <<<<"Account">>, <<"Contact">>>>

PriorityLists == {PRIORITY_LIST, <<<<"Contact">>, <<"Account">>>>,
                  <<<<"Account">>>>, <<<<"Opportunity">>, <<"Account">>>>}

MaxFiles == 3

\* priority in file
Contains(priority, file) ==
    \E i \in 1..(Len(file) - Len(priority) + 1) :
        SubSeq(file, i, i + Len(priority) - 1) = priority

\* list.index(x): position of the first occurrence
Index(s, x) == CHOOSE i \in 1..Len(s) : s[i] = x /\ \A j \in 1..(i - 1) : s[j] # x

\* list.pop(i): the list without position i
Pop(s, i) == SubSeq(s, 1, i - 1) \o SubSeq(s, i + 1, Len(s))

\* [file for file in payloads_files if priority in file]
FilesWith(files, priority) ==
    LET Test(f) == Contains(priority, f) IN SelectSeq(files, Test)

\* The loop over priority_list; the result is <<payloads_files, priority_files>>
RECURSIVE sort_files_loop(_, _, _)
sort_files_loop(files, priorities, priority_files) ==
    IF priorities = <<>> THEN <<files, priority_files>>
    ELSE LET file == FilesWith(files, Head(priorities))
         IN IF file # <<>>
            THEN sort_files_loop(Pop(files, Index(files, file[1])),
                                 Tail(priorities),
                                 Append(priority_files, file[1]))
            ELSE sort_files_loop(files, Tail(priorities), priority_files)

sort_files(files, priorities) ==
    LET r == sort_files_loop(files, priorities, <<>>)
        NotPriority(f) == f \notin Range(r[2])
        regular_files == SelectSeq(r[1], NotPriority)
    IN r[2] \o regular_files

SortIdle ==
    /\ sort_pc = "idle"
    /\ payloads_files = <<>>
    /\ priority_list = <<>>
    /\ sorted_files = <<>>

SortInit ==
    /\ sort_pc = "start"
    /\ payloads_files \in {s \in SeqsUpTo(FileNames, MaxFiles) : Distinct(s)}
    /\ priority_list \in PriorityLists
    /\ sorted_files = <<>>

SortFiles ==
    /\ sort_pc = "start"
    /\ sorted_files' = sort_files(payloads_files, priority_list)
    /\ sort_pc' = "done"
    /\ UNCHANGED <<payloads_files, priority_list, rk_vars, disc_vars, schema_vars, upload_vars>>

(***************************************************************************)
(* do_discover                                                             *)
(***************************************************************************)
\* sorted(objects_to_discover): the catalog's object names in the order of
\* Python's string comparison ("C" < "_", "T" < "c")
SortedObjects == <<"FooChangeEvent", "Foo__Tag", "Foo__c", "Goo__Tag", "Goo__c">>

\* sobject_name.endswith("ChangeEvent"), sobject_name.endswith("__Tag")
EndsWithChangeEvent(name) == name \in {"FooChangeEvent"}
EndsWithTag(name) == name \in {"Foo__Tag", "Goo__Tag"}

\* Field descriptors of the catalog
Field(name, relationshipName, referenceTo) ==
    [name |-> name, relationshipName |-> relationshipName, referenceTo |-> referenceTo]
IdField == Field("Id", None, <<>>)
NameField == Field("Name", None, <<>>)
OwnerField == Field("OwnerId", "Owner", <<"Goo__c">>)
ItemFields == {Field("ItemId", "Item", r) :
                  r \in {<<"Foo__c">>, <<"Goo__c">>, <<"Foo__c", "Goo__c">>,
                         <<"Goo__c", "Foo__c">>}}

\* The None that stands for "no such field"
NoField == Field(None, None, <<>>)

TagFieldLists ==
    {<<IdField, NameField>>, <<OwnerField, Field("ItemId", "Item", <<"Foo__c">>)>>}
        \cup {<<IdField, OwnerField, f>> : f \in ItemFields}
BaseFieldLists == {<<IdField, NameField>>, <<NameField>>}

\* sf.describe(sobject_name) for every object of the catalog
Descriptions ==
    {d \in [Range(SortedObjects) -> [customSetting : BOOLEAN,
                                      fields : TagFieldLists \cup BaseFieldLists]] :
        \A n \in Range(SortedObjects) :
            IF EndsWithTag(n)
            THEN d[n].fields \in TagFieldLists /\ ~d[n].customSetting
            ELSE d[n].fields \in BaseFieldLists
                     /\ (EndsWithChangeEvent(n) =>
                             ~d[n].customSetting /\ d[n].fields = <<IdField, NameField>>)}

\* dict[k] = v
DictPut(d, k, v) == [x \in DOMAIN d \cup {k} |-> IF x = k THEN v ELSE d[x]]

\* next((f for f in fields if f.get("relationshipName") == "Item"), None)
relationship_field(fields) ==
    LET IsItem(f) == f.relationshipName = "Item"
        items == SelectSeq(fields, IsItem)
    IN IF items = <<>> THEN NoField ELSE items[1]

\* [f["name"] for f in fields if f["name"] == "Id"]
HasId(fields) == \E i \in 1..Len(fields) : fields[i].name = "Id"

\* The part of the entry of generate_schema that do_discover reads
Entry(name) == [stream |-> name, tap_stream_id |-> name]

\* [object_to_tag_references[f] for f in sf_custom_setting_objects
\*      if f in object_to_tag_references]
unsupported_tag_objects(custom, refs) ==
    LET Known(f) == f \in DOMAIN refs
        known == SelectSeq(custom, Known)
    IN [i \in 1..Len(known) |-> refs[known[i]]]

DiscIdle ==
    /\ disc_pc = "idle"
    /\ descriptions = <<>>
    /\ blacklisted_objects = {}
    /\ disc_api_type = None
    /\ has_permissions = FALSE
    /\ disc_i = 0
    /\ sf_custom_setting_objects = <<>>
    /\ object_to_tag_references = <<>>
    /\ entries = <<>>

DiscInit ==
    /\ disc_pc = "start"
    /\ descriptions \in Descriptions
    /\ blacklisted_objects \in {{}, {"Goo__Tag"}}
    /\ disc_api_type \in {"BULK", "REST"}
    /\ has_permissions \in BOOLEAN
    /\ disc_i = 1
    /\ sf_custom_setting_objects = <<>>
    /\ object_to_tag_references = <<>>
    /\ entries = <<>>

\* The Bulk API permission check before the loop
CheckBulkPermissions ==
    /\ disc_pc = "start"
    /\ disc_pc' = IF disc_api_type = "BULK" /\ ~has_permissions
                  THEN "raised" ELSE "loop"
    /\ UNCHANGED <<descriptions, blacklisted_objects, disc_api_type, has_permissions,
                   disc_i, sf_custom_setting_objects, object_to_tag_references,
                   entries, rk_vars, sort_vars, schema_vars, upload_vars>>

\* One iteration of the loop over sorted(objects_to_discover)
DescribeObject ==
    /\ disc_pc = "loop"
    /\ disc_i <= Len(SortedObjects)
    /\ LET name == SortedObjects[disc_i]
           sobject_description == descriptions[name]
           fields == sobject_description.fields
           item == relationship_field(fields)
       IN IF name \in blacklisted_objects \/ EndsWithChangeEvent(name)
          THEN UNCHANGED <<sf_custom_setting_objects, object_to_tag_references, entries>>
          ELSE /\ sf_custom_setting_objects' =
                      IF sobject_description.customSetting
                      THEN Append(sf_custom_setting_objects, name)
                      ELSE sf_custom_setting_objects
               /\ object_to_tag_references' =
                      IF /\ ~sobject_description.customSetting
                         /\ EndsWithTag(name)
                         /\ item # NoField
                      THEN DictPut(object_to_tag_references, item.referenceTo[1], name)
                      ELSE object_to_tag_references
               /\ entries' = IF HasId(fields) THEN Append(entries, Entry(name))
                             ELSE entries
    /\ disc_i' = disc_i + 1
    /\ UNCHANGED <<disc_pc, descriptions, blacklisted_objects, disc_api_type,
                   has_permissions, rk_vars, sort_vars, schema_vars, upload_vars>>

\* After the loop: drop the tag objects of custom settings and emit the result
RemoveTagObjects ==
    /\ disc_pc = "loop"
    /\ disc_i > Len(SortedObjects)
    /\ LET unsupported ==
               unsupported_tag_objects(sf_custom_setting_objects, object_to_tag_references)
           Kept(e) == e.stream \notin Range(unsupported)
       IN entries' = IF unsupported # <<>> THEN SelectSeq(entries, Kept) ELSE entries
    /\ disc_pc' = "done"
    /\ UNCHANGED <<descriptions, blacklisted_objects, disc_api_type, has_permissions,
                   disc_i, sf_custom_setting_objects, object_to_tag_references,
                   rk_vars, sort_vars, schema_vars, upload_vars>>

(***************************************************************************)
(* generate_schema                                                         *)
(***************************************************************************)
BULK_API_TYPE == "BULK"
REST_API_TYPE == "REST"

\* The object whose schema is generated
SchemaObject == "Account"

COMPOUND_REASON == "cannot query compound address fields or geolocations with bulk API"
JSON_REASON == "do not currently support json fields - please contact support"
BLACKLIST_REASON == "this field is unsupported by the Bulk API."

MaxFields == 2

SchemaFieldNames == {"Id", "BillingAddress", "SystemModstamp"}
SchemaFieldTypes == {"string", "address", "json"}
SchemaFieldLists ==
    {s \in SeqsUpTo([name : SchemaFieldNames, type : SchemaFieldTypes], MaxFields) :
        \A i, j \in 1..Len(s) : i # j => s[i].name # s[j].name}

\* sf.get_blacklisted_fields(): (object, field) -> reason
BlacklistTables ==
    {[p \in d |-> BLACKLIST_REASON] :
        d \in {{}, {<<"Account", "BillingAddress">>},
               {<<"Account", "SystemModstamp">>, <<"Contact", "Id">>}}}

\* Compiled metadata: the set of <<breadcrumb, key, value>> it holds.
\* The breadcrumb of a property is its field name, the breadcrumb () is Root.
Root == "()"

\* metadata.get(mdata, breadcrumb, k)
MetadataGet(md, breadcrumb, k) ==
    IF \E t \in md : t[1] = breadcrumb /\ t[2] = k
    THEN (CHOOSE t \in md : t[1] = breadcrumb /\ t[2] = k)[3]
    ELSE None

\* metadata.delete(mdata, breadcrumb, k)
MetadataDelete(md, breadcrumb, k) == {t \in md : ~(t[1] = breadcrumb /\ t[2] = k)}

\* metadata.write(mdata, breadcrumb, k, val)
MetadataWrite(md, breadcrumb, k, val) ==
    MetadataDelete(md, breadcrumb, k) \cup {<<breadcrumb, k, val>>}

create_property_schema(field, md) ==
    IF field.name = "Id"
    THEN MetadataWrite(md, field.name, "inclusion", "automatic")
    ELSE MetadataWrite(md, field.name, "inclusion", "available")

\* The (field_name, reason) pairs one loop iteration adds to unsupported_fields
UnsupportedPairs(f, object, api, blacklist) ==
    (IF f.type \in {"address", "location"} /\ api = BULK_API_TYPE
     THEN {<<f.name, COMPOUND_REASON>>} ELSE {})
    \cup (IF f.type = "json" THEN {<<f.name, JSON_REASON>>} ELSE {})
    \cup (IF <<object, f.name>> \in DOMAIN blacklist
          THEN {<<f.name, blacklist[<<object, f.name>>]>>} ELSE {})

\* Mutant: the selected-by-default annotation is left in place
unsupported_rewrite_keep_selected(md, prop, description) ==
    MetadataWrite(MetadataWrite(md, prop, "unsupported-description", description),
                  prop, "inclusion", "unsupported")

\* The body of the loop over filtered_unsupported_fields
unsupported_rewrite(md, prop, description) ==
    LET cleared == IF MetadataGet(md, prop, "selected-by-default") = "True"
                   THEN MetadataDelete(md, prop, "selected-by-default")
                   ELSE md
    IN MetadataWrite(MetadataWrite(cleared, prop, "unsupported-description", description),
                     prop, "inclusion", "unsupported")

SchemaIdle ==
    /\ schema_pc = "idle"
    /\ schema_fields = <<>>
    /\ api_type = None
    /\ select_fields_by_default = FALSE
    /\ blacklisted_fields = <<>>
    /\ schema_replication_key = None
    /\ schema_i = 0
    /\ unsupported_fields = {}
    /\ mdata = {}
    /\ properties = {}
    /\ filtered_unsupported_fields = {}

\* do_discover passes the replication key that get_replication_key resolved
SchemaInit ==
    /\ schema_pc = "fields"
    /\ schema_fields \in SchemaFieldLists
    /\ api_type \in {BULK_API_TYPE, REST_API_TYPE}
    /\ select_fields_by_default \in BOOLEAN
    /\ blacklisted_fields \in BlacklistTables
    /\ schema_replication_key =
           get_replication_key(SchemaObject,
                               {schema_fields[i].name : i \in 1..Len(schema_fields)})
    /\ schema_i = 1
    /\ unsupported_fields = {}
    /\ mdata = {}
    /\ properties = {}
    /\ filtered_unsupported_fields = {}

\* One iteration of the loop over the object's fields
SchemaField ==
    /\ schema_pc = "fields"
    /\ schema_i <= Len(schema_fields)
    /\ LET f == schema_fields[schema_i]
           created == create_property_schema(f, mdata)
           inclusion == MetadataGet(created, f.name, "inclusion")
       IN /\ unsupported_fields' =
                 unsupported_fields
                     \cup UnsupportedPairs(f, SchemaObject, api_type, blacklisted_fields)
          /\ mdata' = IF select_fields_by_default /\ inclusion # "unsupported"
                      THEN MetadataWrite(created, f.name, "selected-by-default", "True")
                      ELSE created
          /\ properties' = properties \cup {f.name}
    /\ schema_i' = schema_i + 1
    /\ UNCHANGED <<schema_pc, schema_inputs, filtered_unsupported_fields,
                   rk_vars, sort_vars, disc_vars, upload_vars>>

\* After the field loop: the replication key becomes automatic and the
\* unsupported fields that are in the field list are collected
SchemaReplicationKey ==
    /\ schema_pc = "fields"
    /\ schema_i > Len(schema_fields)
    /\ mdata' = IF schema_replication_key # None
                THEN MetadataWrite(mdata, schema_replication_key, "inclusion", "automatic")
                ELSE mdata
    /\ filtered_unsupported_fields' =
           {u \in unsupported_fields :
               u[1] \in {schema_fields[i].name : i \in 1..Len(schema_fields)}}
    /\ schema_pc' = "rewrite"
    /\ UNCHANGED <<schema_inputs, schema_i, unsupported_fields, properties,
                   rk_vars, sort_vars, disc_vars, upload_vars>>

\* One iteration of the loop over filtered_unsupported_fields, a list built
\* from a set of tuples of strings: its order is the set's iteration order,
\* which varies with the hash seed of the run, so any remaining pair may be next
SchemaRewriteUnsupported ==
    /\ schema_pc = "rewrite"
    /\ \E u \in filtered_unsupported_fields :
           /\ mdata' = unsupported_rewrite(mdata, u[1], u[2])
           /\ filtered_unsupported_fields' = filtered_unsupported_fields \ {u}
    /\ UNCHANGED <<schema_pc, schema_inputs, schema_i, unsupported_fields, properties,
                   rk_vars, sort_vars, disc_vars, upload_vars>>

\* The object-level metadata and the returned entry
SchemaFinish ==
    /\ schema_pc = "rewrite"
    /\ filtered_unsupported_fields = {}
    /\ mdata' =
           MetadataWrite(
               IF schema_replication_key # None
               THEN MetadataWrite(mdata, Root, "valid-replication-keys",
                                  schema_replication_key)
               ELSE MetadataWrite(mdata, Root, "forced-replication-method", "FULL_TABLE"),
               Root, "table-key-properties", "Id")
    /\ schema_pc' = "done"
    /\ UNCHANGED <<schema_inputs, schema_i, unsupported_fields, properties,
                   filtered_unsupported_fields, rk_vars, sort_vars, disc_vars, upload_vars>>

(***************************************************************************)
(* upload_target and generate_ids                                          *)
(*                                                                         *)
(* A record (item) is the sequence of its <<key, value>> pairs in key      *)
(* order.  A value is a string, null, or a nested mapping of one           *)
(* lookup field to one lookup value.  The remote store is the sequence of  *)
(* the records the service holds; the record at position i has the Id      *)
(* Ids[i], and a query returns its rows in store order.                    *)
(***************************************************************************)
MaxRecords == 2

StrVal(x) == [t |-> "str", s |-> x, f |-> ""]
NullVal == [t |-> "null", s |-> "", f |-> ""]
DictVal(field, x) == [t |-> "dict", s |-> x, f |-> field]

\* '{value}' in an f-string
Format(v) ==
    IF v.t = "str" THEN v.s
    ELSE IF v.t = "null" THEN "None"
    ELSE "{...}"

\* The described object the payload file is uploaded to
Sobject ==
    [name |-> "Contact",
     fields |-> <<[name |-> "Id", externalId |-> FALSE],
                  [name |-> "Ext1__c", externalId |-> TRUE],
                  [name |-> "Ext2__c", externalId |-> TRUE],
                  [name |-> "AccountId", externalId |-> FALSE]>>]

\* [f["name"] for f in sobject['fields'] if f['externalId']]
external_ids ==
    LET IsExt(f) == f.externalId
        ext == SelectSeq(Sobject.fields, IsExt)
    IN [i \in 1..Len(ext) |-> ext[i].name]

\* The records a payload file is made of
ItemPairs ==
    {<<"Ext1__c", StrVal("E1")>>, <<"Ext1__c", NullVal>>, <<"Ext2__c", StrVal("E2")>>,
     <<"AccountId", DictVal("External_Id__c", "X1")>>}
\* (one or two distinct keys; a nested reference, when there is one, is the
\* last key)
Items == {it \in SeqsUpTo(ItemPairs, 2) :
             /\ it # <<>>
             /\ \A i, j \in 1..Len(it) : i # j => it[i][1] # it[j][1]
             /\ \A i \in 1..(Len(it) - 1) : it[i][2].t # "dict"}

ItemKeys(item) == [i \in 1..Len(item) |-> item[i][1]]
HasKey(item, k) == \E i \in 1..Len(item) : item[i][1] = k

\* item.get(k)
ItemGet(item, k) ==
    IF HasKey(item, k)
    THEN item[CHOOSE i \in 1..Len(item) : item[i][1] = k][2]
    ELSE NullVal

\* item[k] = v, for a key the item has
ItemSet(item, k, v) ==
    [i \in 1..Len(item) |-> IF item[i][1] = k THEN <<k, v>> ELSE item[i]]

Ids == <<"001", "002", "003", "004", "005", "006", "007", "008">>
IdIndex(id) == CHOOSE i \in 1..Len(Ids) : Ids[i] = id

RemoteRecord(sobject, deleted, fields) ==
    [sobject |-> sobject, deleted |-> deleted, fields |-> fields]

\* What the service holds before the upload
RemoteAccounts ==
    {<<>>, <<RemoteRecord("Account", FALSE, <<<<"External_Id__c", StrVal("X1")>>>>)>>}
RemoteContacts ==
    {<<>>,
     <<RemoteRecord("Contact", TRUE, <<<<"Ext1__c", StrVal("E1")>>>>)>>,
     <<RemoteRecord("Contact", FALSE, <<<<"Ext1__c", StrVal("E1")>>>>),
       RemoteRecord("Contact", FALSE, <<<<"Ext2__c", StrVal("E2")>>>>)>>}

\* HTTP statuses the service answers a write with
Statuses == {200, 201, 300, 400, 404}
Accepted(status) == status \in 200..299

\* The positions of the rows of
\*   SELECT ... FROM sobject WHERE field = 'literal' [AND IsDeleted=false]
\* in store order
QueryRows(store, sobject, field, literal, live_only) ==
    LET Matches(i) ==
            /\ store[i].sobject = sobject
            /\ HasKey(store[i].fields, field)
            /\ ItemGet(store[i].fields, field) = StrVal(literal)
            /\ (live_only => ~store[i].deleted)
        positions == [i \in 1..Len(store) |-> i]
    IN SelectSeq(positions, Matches)

\* k.replace("Id", "")
ReplaceId(k) == IF k = "AccountId" THEN "Account" ELSE k

\* generate_ids over the keys from position i on: the item with every nested
\* mapping replaced by the Id of the first row of its lookup; raised is TRUE
\* when a lookup has no row (next() on the exhausted generator)
RECURSIVE generate_ids_from(_, _, _)
generate_ids_from(store, item, i) ==
    IF i > Len(item) THEN [raised |-> FALSE, item |-> item]
    ELSE LET k == item[i][1]
             v == item[i][2]
         IN IF v.t = "dict"
            THEN LET rows == QueryRows(store, ReplaceId(k), v.f, Format(StrVal(v.s)),
                                       FALSE)
                 IN IF rows = <<>> THEN [raised |-> TRUE, item |-> item]
                    ELSE generate_ids_from(store,
                                           ItemSet(item, k, StrVal(Ids[rows[1]])),
                                           i + 1)
            ELSE generate_ids_from(store, item, i + 1)

generate_ids(store, item) == generate_ids_from(store, item, 1)

\* Mutant: no key of the item counts as an external id
external_id_none(item) == <<>>

\* [i for i in item.keys() if i in external_ids]
external_id(item) ==
    LET IsExternal(k) == k \in Range(external_ids)
    IN SelectSeq(ItemKeys(item), IsExternal)

\* Mutant: the loop over external_id has no break, the last query decides
first_match_last(store, update_item, eids) ==
    LET rows == [i \in 1..Len(eids) |->
                    QueryRows(store, Sobject.name, eids[i],
                              Format(ItemGet(update_item, eids[i])), TRUE)]
        last == Len(eids)
    IN IF last = 0 \/ rows[last] = <<>> THEN 0 ELSE rows[last][1]

\* The loop over external_id: the position in the store of the first row of
\* the first query that has one, 0 (res is False) when no query has a row
RECURSIVE first_match(_, _, _)
first_match(store, update_item, eids) ==
    IF eids = <<>> THEN 0
    ELSE LET rows == QueryRows(store, Sobject.name, Head(eids),
                               Format(ItemGet(update_item, Head(eids))), TRUE)
         IN IF rows # <<>> THEN rows[1]
            ELSE first_match(store, update_item, Tail(eids))

\* res['attributes']['url'].split("/")
UrlSplit(store, i) ==
    <<"", "services", "data", "v41.0", "sobjects", store[i].sobject, Ids[i]>>

\* "/".join(url.split("/")[4:])
Endpoint(store, i) == SubSeq(UrlSplit(store, i), 5, Len(UrlSplit(store, i)))

\* The warning logged for the response of update_record
update_warning(status) ==
    IF status = 404 THEN "object-not-found"
    ELSE IF status = 400 THEN "invalid-payload-message"
    ELSE IF status > 300 THEN "invalid-payload"
    ELSE "none"

\* The warning logged for the response of create_record
create_warning(status) ==
    IF status = 404 THEN "object-not-found"
    ELSE IF status = 400 THEN "invalid-payload-message"
    ELSE IF status # 200 THEN "invalid-payload"
    ELSE "none"

Call(op, endpoint, item, status, warning, record) ==
    [op |-> op, endpoint |-> endpoint, payload |-> item, status |-> status,
     warning |-> warning, record |-> record]

UpdateCall(store, res, item, status, record) ==
    Call("update_record", Endpoint(store, res), item, status,
         update_warning(status), record)

CreateCall(item, status, record) ==
    Call("create_record", <<Sobject.name>>, item, status, create_warning(status), record)

\* Mutant: the update path has no continue and falls through to the create
item_writes_no_continue(store, item, record, status) ==
    LET eids == external_id(item)
        res == IF eids = <<>> THEN 0
               ELSE first_match(store, generate_ids(store, item).item, eids)
    IN IF res # 0
       THEN <<UpdateCall(store, res, item, status, record),
              CreateCall(item, status, record)>>
       ELSE <<CreateCall(item, status, record)>>

\* The writes of one iteration of the loop over the payload that does not raise
item_writes(store, item, record, status) ==
    LET eids == external_id(item)
        res == IF eids = <<>> THEN 0
               ELSE first_match(store, generate_ids(store, item).item, eids)
    IN IF res # 0
       THEN <<UpdateCall(store, res, item, status, record)>>
       ELSE <<CreateCall(item, status, record)>>

\* The fields of a stored record after a write of the item's fields
Merge(fields, item) ==
    LET Kept(p) == ~HasKey(item, p[1])
    IN SelectSeq(fields, Kept) \o item

\* The store after the service has answered the write
RemoteApply(store, call) ==
    IF ~Accepted(call.status) THEN store
    ELSE IF call.op = "create_record"
    THEN Append(store, RemoteRecord(call.endpoint[1], FALSE, call.payload))
    ELSE LET i == IdIndex(call.endpoint[3])
         IN [store EXCEPT ![i].fields = Merge(store[i].fields, call.payload)]

RECURSIVE RemoteApplyAll(_, _)
RemoteApplyAll(store, writes) ==
    IF writes = <<>> THEN store
    ELSE RemoteApplyAll(RemoteApply(store, Head(writes)), Tail(writes))

\* generate_ids is only called for an item that has an external id
Raises(store, item) ==
    external_id(item) # <<>> /\ generate_ids(store, item).raised

UploadIdle ==
    /\ pc = "idle"
    /\ payload = <<>>
    /\ remote0 = <<>>
    /\ remote = <<>>
    /\ idx = 0
    /\ calls = <<>>

UploadInit ==
    /\ pc = "upload"
    /\ payload \in SeqsUpTo(Items, MaxRecords)
    /\ \E a \in RemoteAccounts, c \in RemoteContacts : remote0 = a \o c
    /\ remote = remote0
    /\ idx = 1
    /\ calls = <<>>

\* One iteration of the loop over the payload that ends in a write
UploadItem ==
    /\ pc = "upload"
    /\ idx <= Len(payload)
    /\ ~Raises(remote, payload[idx])
    /\ \E status \in Statuses :
           LET writes == item_writes(remote, payload[idx], idx, status)
           IN /\ calls' = calls \o writes
              /\ remote' = RemoteApplyAll(remote, writes)
    /\ idx' = idx + 1
    /\ UNCHANGED <<pc, payload, remote0, rk_vars, sort_vars, disc_vars, schema_vars>>

\* One iteration in which generate_ids finds no row: StopIteration leaves
\* upload_target
UploadRaise ==
    /\ pc = "upload"
    /\ idx <= Len(payload)
    /\ Raises(remote, payload[idx])
    /\ pc' = "raised"
    /\ UNCHANGED <<payload, remote0, remote, idx, calls,
                   rk_vars, sort_vars, disc_vars, schema_vars>>

\* The loop is over
UploadReturn ==
    /\ pc = "upload"
    /\ idx > Len(payload)
    /\ pc' = "done"
    /\ UNCHANGED <<payload, remote0, remote, idx, calls,
                   rk_vars, sort_vars, disc_vars, schema_vars>>

(***************************************************************************)
(* Specifications                                                          *)
(***************************************************************************)
InitRepl == RkInit /\ SortIdle /\ DiscIdle /\ SchemaIdle /\ UploadIdle
NextRepl == ResolveReplicationKey
SpecRepl == InitRepl /\ [][NextRepl]_vars

InitSort == SortInit /\ RkIdle /\ DiscIdle /\ SchemaIdle /\ UploadIdle
NextSort == SortFiles
SpecSort == InitSort /\ [][NextSort]_vars

InitDiscover == DiscInit /\ RkIdle /\ SortIdle /\ SchemaIdle /\ UploadIdle
NextDiscover == CheckBulkPermissions \/ DescribeObject \/ RemoveTagObjects
SpecDiscover == InitDiscover /\ [][NextDiscover]_vars

InitSchema == SchemaInit /\ RkIdle /\ SortIdle /\ DiscIdle /\ UploadIdle
NextSchema ==
    SchemaField \/ SchemaReplicationKey \/ SchemaRewriteUnsupported \/ SchemaFinish
SpecSchema == InitSchema /\ [][NextSchema]_vars

Init == UploadInit /\ RkIdle /\ SortIdle /\ DiscIdle /\ SchemaIdle
Next == UploadItem \/ UploadRaise \/ UploadReturn
Spec == Init /\ [][Next]_vars

(***************************************************************************)
(* Properties                                                              *)
(***************************************************************************)
Timestamps == {"SystemModstamp", "LastModifiedDate", "CreatedDate"}

\* C7: get_replication_key returns null for every forced-full-table object
\* whatever its fields; otherwise the first present of SystemModstamp,
\* LastModifiedDate, CreatedDate, then LoginTime only for LoginHistory, and
\* null otherwise; the result is never a field the object lacks.
C7_ReplicationKeyPrecedence ==
    rk_pc = "done" =>
        /\ sobject_name \in FORCED_FULL_TABLE => replication_key = None
        /\ replication_key # None => replication_key \in fields_list
        /\ sobject_name \notin FORCED_FULL_TABLE =>
            /\ "SystemModstamp" \in fields_list => replication_key = "SystemModstamp"
            /\ ("SystemModstamp" \notin fields_list /\ "LastModifiedDate" \in fields_list)
                   => replication_key = "LastModifiedDate"
            /\ ( /\ "SystemModstamp" \notin fields_list
                 /\ "LastModifiedDate" \notin fields_list
                 /\ "CreatedDate" \in fields_list) => replication_key = "CreatedDate"
            /\ fields_list \cap Timestamps = {} =>
                   replication_key =
                       IF sobject_name = "LoginHistory" /\ "LoginTime" \in fields_list
                       THEN "LoginTime" ELSE None

\* A forced-full-table object that has every timestamp field was resolved to null
C7_Witness ==
    /\ rk_pc = "done"
    /\ sobject_name = "LoginEvent"
    /\ Timestamps \subseteq fields_list
    /\ replication_key = None

IsPriorityFile(f) == \E i \in 1..Len(priority_list) : Contains(priority_list[i], f)

\* Position in the priority list of the first priority name the file contains
PriorityRank(f) ==
    CHOOSE i \in 1..Len(priority_list) :
        /\ Contains(priority_list[i], f)
        /\ \A j \in 1..(i - 1) : ~Contains(priority_list[j], f)

\* C4: sort_files is a stable partition: every file that contains a priority
\* name precedes every file that contains none, the priority files follow the
\* priority list's order, the other files keep their relative order, and
\* [Contact, Opportunity, Account] with [Account, Contact] gives
\* Account, Contact, Opportunity.
C4_StablePartition ==
    sort_pc = "done" =>
        /\ Range(sorted_files) = Range(payloads_files)
        /\ Len(sorted_files) = Len(payloads_files)
        /\ \A i, j \in 1..Len(sorted_files) :
               /\ (IsPriorityFile(sorted_files[i]) /\ ~IsPriorityFile(sorted_files[j]))
                      => i < j
               /\ ( /\ i < j
                    /\ IsPriorityFile(sorted_files[i])
                    /\ IsPriorityFile(sorted_files[j]))
                      => PriorityRank(sorted_files[i]) <= PriorityRank(sorted_files[j])
               /\ ( /\ i < j
                    /\ ~IsPriorityFile(sorted_files[i])
                    /\ ~IsPriorityFile(sorted_files[j]))
                      => Index(payloads_files, sorted_files[i])
                             < Index(payloads_files, sorted_files[j])
        /\ ( /\ payloads_files = <<<<"Contact">>, <<"Opportunity">>, <<"Account">>>>
             /\ priority_list = PRIORITY_LIST)
               => sorted_files = <<<<"Account">>, <<"Contact">>, <<"Opportunity">>>>

\* Tag objects whose Item relationship references the object
TagsOf(x) ==
    {t \in Range(SortedObjects) :
        /\ EndsWithTag(t)
        /\ \E i \in 1..Len(descriptions[t].fields) :
               /\ descriptions[t].fields[i].relationshipName = "Item"
               /\ x \in Range(descriptions[t].fields[i].referenceTo)}

Streams == {entries[i].stream : i \in 1..Len(entries)}

\* C5: when discovery has emitted its streams, no tag object whose Item
\* relationship references a custom-setting object has an entry, also when
\* several tag objects reference the same custom setting or the relationship
\* references several objects.
C5_TagSuppression ==
    disc_pc = "done" =>
        \A x \in Range(SortedObjects) :
            descriptions[x].customSetting => TagsOf(x) \cap Streams = {}

SchemaNames == {schema_fields[i].name : i \in 1..Len(schema_fields)}

\* C6: in the entry generate_schema returns, a field whose inclusion is
\* unsupported carries no selected-by-default annotation, and every field
\* path has exactly one inclusion value.
C6_UnsupportedNeverSelected ==
    schema_pc = "done" =>
        \A n \in SchemaNames :
            /\ Cardinality({t \in mdata : t[1] = n /\ t[2] = "inclusion"}) = 1
            /\ MetadataGet(mdata, n, "inclusion") = "unsupported"
                   => ~\E t \in mdata : t[1] = n /\ t[2] = "selected-by-default"

\* A field was selected by default in the loop and then rewritten as unsupported
C6_Witness ==
    /\ schema_pc = "done"
    /\ select_fields_by_default
    /\ \E n \in SchemaNames : MetadataGet(mdata, n, "inclusion") = "unsupported"

\* The reason of the first rule, in the order compound type, json,
\* blacklist, that the field matches; None when it matches no rule
FirstReason(f) ==
    IF f.type \in {"address", "location"} /\ api_type = BULK_API_TYPE
    THEN COMPOUND_REASON
    ELSE IF f.type = "json" THEN JSON_REASON
    ELSE IF <<SchemaObject, f.name>> \in DOMAIN blacklisted_fields
    THEN blacklisted_fields[<<SchemaObject, f.name>>]
    ELSE None

\* C10: the unsupported-description of a field is the reason of the first
\* rule it matches in the order compound type, json, blacklist, also when it
\* matches more than one rule.
C10_FirstRuleWins ==
    schema_pc = "done" =>
        \A i \in 1..Len(schema_fields) :
            MetadataGet(mdata, schema_fields[i].name, "unsupported-description")
                = FirstReason(schema_fields[i])

\* Names of the external-id fields of the target object
ExternalIdNames == {f.name : f \in {g \in Range(Sobject.fields) : g.externalId}}

\* Positions of the item's pairs whose key is an external-id field
ExtPositions(item) == {i \in 1..Len(item) : item[i][1] \in ExternalIdNames}

\* Positions of the store's records of the target object, not soft-deleted,
\* whose field equals the text the query compares it with
LiveRows(store, field, value) ==
    {j \in 1..Len(store) :
        /\ store[j].sobject = Sobject.name
        /\ ~store[j].deleted
        /\ <<field, StrVal(Format(value))>> \in Range(store[j].fields)}

Min(S) == CHOOSE x \in S : \A y \in S : x <= y

UpdateEndpoint(j) == <<"sobjects", Sobject.name, Ids[j]>>

\* The payload file is the same record twice
SameTwice == Len(payload) = 2 /\ payload[1] = payload[2]

\* C1 as stated: the same record submitted twice, with a string in an
\* external-id field that no record of the initial store holds, gives one
\* create_record followed by one update_record on the created record.
C1_CreateThenUpdate ==
    ( /\ pc = "done"
      /\ SameTwice
      /\ \E i \in ExtPositions(payload[1]) :
             /\ payload[1][i][2].t = "str"
             /\ \A j \in 1..Len(remote0) :
                    payload[1][i] \notin Range(remote0[j].fields) )
        => /\ Len(calls) = 2
           /\ calls[1].op = "create_record"
           /\ calls[2].op = "update_record"
           /\ calls[2].endpoint = UpdateEndpoint(Len(remote0) + 1)

\* The record has an external-id field and the initial store holds no live
\* record of the object that matches any of its external-id values
NoInitialMatch(item) ==
    /\ ExtPositions(item) # {}
    /\ \A i \in ExtPositions(item) : LiveRows(remote0, item[i][1], item[i][2]) = {}

\* C1 amended: when the pass completes and no live record of the initial
\* store matches any external-id value of the record, the first submission is
\* a create_record; the second is an update_record on the created record when
\* the create was accepted (2xx) and some external-id value of the record is a
\* string, and a second create_record otherwise.
C1_CreateThenUpdateIfAccepted ==
    (pc = "done" /\ SameTwice /\ NoInitialMatch(payload[1]))
        => /\ Len(calls) = 2
           /\ calls[1].op = "create_record"
           /\ IF /\ Accepted(calls[1].status)
                 /\ \E i \in ExtPositions(payload[1]) : payload[1][i][2].t = "str"
              THEN /\ calls[2].op = "update_record"
                   /\ calls[2].endpoint = UpdateEndpoint(Len(remote0) + 1)
              ELSE calls[2].op = "create_record"

\* The same record was created and then updated
C1_Witness ==
    /\ pc = "done"
    /\ SameTwice
    /\ NoInitialMatch(payload[1])
    /\ Len(calls) = 2
    /\ Accepted(calls[1].status)
    /\ calls[2].op = "update_record"

\* The classification the specification gives for a status
Classification(status) ==
    IF status = 404 THEN "object-not-found"
    ELSE IF status = 400 THEN "invalid-payload-message"
    ELSE IF status >= 300 THEN "invalid-payload"
    ELSE "none"

\* C2: on the create path and on the update path alike, 404 gives the
\* object-not-found warning, 400 the invalid-payload warning with the message,
\* any other status >= 300 the generic invalid-payload warning, and every 2xx
\* status no warning.
C2_SameClassification ==
    \A i \in 1..Len(calls) : calls[i].warning = Classification(calls[i].status)

HasNested(item) == \E i \in 1..Len(item) : item[i][2].t = "dict"

\* C3: no payload that still holds a nested mapping is passed to
\* create_record or update_record, and an upload that failed did so on a
\* record with a nested reference.
C3_NoNestedPayload ==
    /\ \A i \in 1..Len(calls) : ~HasNested(calls[i].payload)
    /\ pc = "raised" => HasNested(payload[idx])

\* C8 as stated: when the pass has ended, every record of the file has had
\* exactly one write attempt, in file order.
C8_EveryRecordAttempted ==
    pc \in {"done", "raised"} =>
        /\ Len(calls) = Len(payload)
        /\ \A i \in 1..Len(calls) : calls[i].record = i

\* C8 amended: the records are handled in file order with exactly one write
\* attempt for each record reached, whatever status the earlier writes
\* returned; the pass ends early only on a record with an external-id field
\* whose nested reference has no row, and that record and the later ones get
\* no write.
C8_OneWritePerRecordReached ==
    /\ Len(calls) = idx - 1
    /\ \A i \in 1..Len(calls) : calls[i].record = i /\ calls[i].payload = payload[i]
    /\ pc = "done" => Len(calls) = Len(payload)
    /\ pc = "raised" =>
           /\ ExtPositions(payload[idx]) # {}
           /\ \E i \in 1..Len(payload[idx]) :
                  /\ payload[idx][i][2].t = "dict"
                  /\ \A j \in 1..Len(remote) :
                         ~ /\ remote[j].sobject = ReplaceId(payload[idx][i][1])
                           /\ <<payload[idx][i][2].f, StrVal(payload[idx][i][2].s)>>
                                  \in Range(remote[j].fields)

\* A rejected write was followed by the write of the next record
C8_Witness ==
    /\ pc = "done"
    /\ Len(calls) = 2
    /\ calls[1].status \in {400, 404}
    /\ calls[2].record = 2

\* External-id positions of the item whose query has a row
Matching(store, item) ==
    {i \in ExtPositions(item) : LiveRows(store, item[i][1], item[i][2]) # {}}

====
